---- MODULE Spec2Model ----
(***************************************************************************)
(* The MCP chat client (client1.py) and the calculator tool provider       *)
(* (calculator.py).  The state is Streamlit's session_state (history,      *)
(* tools, tool_by_name) together with the position of the script run that  *)
(* handles one chat input and that run's local variables.                  *)
(***************************************************************************)
EXTENDS Integers, Sequences, FiniteSets, TLC

\* ------------------------------------------------------------------ bounds

\* Number of chat inputs (turns) a session of the model receives.
MaxTurns == 2

\* Number of tool calls the model endpoint requests over the whole session.
MaxToolCalls == 2

\* Number of descriptors get_tools() returns in the registry specification.
MaxTools == 3

\* ------------------------------------------------------------- vocabulary

SYSTEM_PROMPT == "You have access to tools."

\* What the user types into st.chat_input.
UserTexts == {"what is 12 plus 30?"}

\* Contents of a model reply; "" is the empty reply that `content or ""` covers.
ReplyTexts == {"", "42"}

\* Contents of a reply that also carries tool_calls.
PlanTexts == {"Let me compute that."}

\* Argument strings a model reply can carry instead of a mapping.
GoodJson == "{\"a\": 12, \"b\": 30}"
BadJson == "a=12 b=30"

\* The value of tc["args"]: a mapping (dict), a string (str) or absent (none).
DictArgs(a, b) == [kind |-> "dict", keys |-> {"a", "b"}, a |-> a, b |-> b, str |-> ""]
EmptyDict == [kind |-> "dict", keys |-> {}, a |-> 0, b |-> 0, str |-> ""]
StrArgs(s) == [kind |-> "str", keys |-> {}, a |-> 0, b |-> 0, str |-> s]
NoArgs == [kind |-> "none", keys |-> {}, a |-> 0, b |-> 0, str |-> ""]

\* The requests (name, args) the model endpoint can put into tool_calls.
ToolRequests ==
    { [name |-> "add", args |-> DictArgs(12, 30)],
      [name |-> "divide", args |-> DictArgs(12, 3)],
      [name |-> "divide", args |-> DictArgs(1, 0)],
      [name |-> "fly_to_moon", args |-> NoArgs],
      [name |-> "add", args |-> StrArgs(GoodJson)],
      [name |-> "add", args |-> StrArgs(BadJson)],
      [name |-> "add", args |-> StrArgs("")] }

\* ---------------------------------------------------------------- messages

SystemMessage(content) ==
    [type |-> "system", content |-> content, tool_calls |-> <<>>, tool_call_id |-> 0]

HumanMessage(content) ==
    [type |-> "human", content |-> content, tool_calls |-> <<>>, tool_call_id |-> 0]

AIMessage(content, tool_calls) ==
    [type |-> "ai", content |-> content, tool_calls |-> tool_calls, tool_call_id |-> 0]

ToolMessage(tool_call_id, content) ==
    [type |-> "tool", content |-> content, tool_calls |-> <<>>, tool_call_id |-> tool_call_id]

\* A local variable of the script run that has not been assigned.
None == [type |-> "none", content |-> "", tool_calls |-> <<>>, tool_call_id |-> 0]

\* An assistant message with pending tool calls, and one without.
HasCalls(m) == m.type = "ai" /\ m.tool_calls # << >>

IsAnswer(m) == m.type = "ai" /\ m.tool_calls = << >>

\* ------------------------------------------------------- calculator server

Raised == [ok |-> FALSE, value |-> 0]
Returned(v) == [ok |-> TRUE, value |-> v]

add(a, b) == Returned(a + b)

\* a / b; the requests above keep a divisible by b, so the quotient is exact.
divide(a, b) == IF b = 0 THEN Raised ELSE Returned(a \div b)

\* -------------------------------------------------------------- registry

\* get_tools(): the descriptors of the configured servers, in server order.
ServerTools ==
    << [name |-> "add", server |-> "math"],
       [name |-> "divide", server |-> "math"] >>

\* The keys of SERVERS and the tool names their servers can announce.
ServerNames == {"math", "Time-tracking", "jobspy"}

ToolNames == {"add", "divide"}

Descriptors == [name : ToolNames, server : ServerNames]

\* The lists of at most n descriptors get_tools() can return.
ToolLists(n) == UNION { [1..k -> Descriptors] : k \in 0..n }

\* llm.bind_tools(tools): one function schema per element of the list, in order.
bind_tools(ts) == [k \in 1..Len(ts) |-> [name |-> ts[k].name, tool |-> ts[k]]]

RECURSIVE ToolByNameUpTo_FirstWins(_, _)
\* Variant: a name that is already registered keeps its first descriptor.
ToolByNameUpTo_FirstWins(ts, n) ==
    IF n = 0 THEN << >>
    ELSE LET prev == ToolByNameUpTo_FirstWins(ts, n - 1)
             t == ts[n]
         IN  [k \in (DOMAIN prev) \cup {t.name} |->
                 IF k \in DOMAIN prev THEN prev[k] ELSE t]

RECURSIVE ToolByNameUpTo(_, _)
\* {t.name: t for t in tools}: later descriptors overwrite earlier ones.
ToolByNameUpTo(ts, n) ==
    IF n = 0 THEN << >>
    ELSE LET prev == ToolByNameUpTo(ts, n - 1)
             t == ts[n]
         IN  [k \in (DOMAIN prev) \cup {t.name} |->
                 IF k = t.name THEN t ELSE prev[k]]

ToolByName(ts) == ToolByNameUpTo(ts, Len(ts))

\* ------------------------------------------------- argument normalisation

\* json.loads on the argument strings above: the mapping, or an exception.
json_loads(s) ==
    IF s = GoodJson THEN [ok |-> TRUE, value |-> DictArgs(12, 30)]
    ELSE [ok |-> FALSE, value |-> StrArgs(s)]

\* Variant: a string that does not parse is replaced by an empty mapping.
NormalizeArgs_DropsRaw(raw) ==
    IF raw.kind = "none" THEN EmptyDict
    ELSE IF raw.kind = "str"
         THEN LET parsed == json_loads(raw.str)
              IN  IF parsed.ok THEN parsed.value ELSE EmptyDict
         ELSE raw

\* args = tc.get("args") or {}; a string is parsed, and kept when it does not parse.
NormalizeArgs(raw) ==
    LET args == IF raw.kind = "none" \/ (raw.kind = "dict" /\ raw.keys = {})
                    \/ (raw.kind = "str" /\ raw.str = "")
                THEN EmptyDict ELSE raw
    IN  IF args.kind = "str"
        THEN LET parsed == json_loads(args.str)
             IN  IF parsed.ok THEN parsed.value ELSE args
        ELSE args

\* tool.ainvoke(args): the server's function on a complete mapping; anything
\* else (a raw string, a mapping without a and b) fails the tool's input check.
ainvoke(tool, args) ==
    IF args.kind = "dict" /\ args.keys = {"a", "b"}
    THEN CASE tool.name = "add" -> add(args.a, args.b)
           [] tool.name = "divide" -> divide(args.a, args.b)
           [] OTHER -> Raised
    ELSE Raised

\* json.dumps of a float result with an integral value, e.g. 42.0.
json_dumps(res) == ToString(res) \o ".0"

\* ------------------------------------------------------------------ render

RECURSIVE RenderedFrom_ShowsCalls(_, _)
\* Variant: the loop without the tool_calls test.
RenderedFrom_ShowsCalls(h, i) ==
    IF i > Len(h) THEN << >>
    ELSE IF h[i].type \in {"human", "ai"}
         THEN <<i>> \o RenderedFrom_ShowsCalls(h, i + 1)
         ELSE RenderedFrom_ShowsCalls(h, i + 1)

RECURSIVE RenderedFrom_SkipsEmpty(_, _)
\* Variant: the loop tests the message's content instead of its tool_calls.
RenderedFrom_SkipsEmpty(h, i) ==
    IF i > Len(h) THEN << >>
    ELSE IF h[i].type = "human" \/ (IsAnswer(h[i]) /\ h[i].content # "")
         THEN <<i>> \o RenderedFrom_SkipsEmpty(h, i + 1)
         ELSE RenderedFrom_SkipsEmpty(h, i + 1)

RECURSIVE RenderedFrom(_, _)
\* The history loop: the positions of the messages drawn as a bubble.
RenderedFrom(h, i) ==
    IF i > Len(h) THEN << >>
    ELSE LET msg == h[i]
         IN  IF msg.type = "human" THEN <<i>> \o RenderedFrom(h, i + 1)
             ELSE IF msg.type = "ai"
                  THEN IF msg.tool_calls # << >>
                       THEN RenderedFrom(h, i + 1)
                       ELSE <<i>> \o RenderedFrom(h, i + 1)
                  ELSE RenderedFrom(h, i + 1)

Rendered(h) == RenderedFrom(h, 1)

\* st.chat_message(role) with st.markdown(text).
Bubble(role, text) == [role |-> role, text |-> text]

\* The bubbles the history loop draws, in order.
Render(h) ==
    LET idx == Rendered(h)
    IN  [k \in 1..Len(idx) |->
            Bubble(IF h[idx[k]].type = "human" THEN "user" ELSE "assistant",
                   h[idx[k]].content)]

\* ------------------------------------------------------------------- state

VARIABLES
    tools,          \* st.session_state.tools
    tool_by_name,   \* st.session_state.tool_by_name
    llm_with_tools, \* st.session_state.llm_with_tools: the descriptors bound to the model
    history,        \* st.session_state.history
    page,           \* the bubbles drawn by the current script run
    pc,             \* where the script run stands
    error,          \* the exception that ended the run, "none" if it has not raised
    first,          \* local: the reply of the first model call
    tool_msgs,      \* local: the ToolMessages collected by the loop
    invoked,        \* the tool invocations the run has sent to the servers
    final,          \* local: the reply of the second model call
    categories,     \* time tracker: the rows of table categories
    sessions,       \* time tracker: the rows of table sessions
    notes,          \* time tracker: the rows of table notes
    sqlite_sequence,\* time tracker: the last AUTOINCREMENT id of each table
    foreign_keys,   \* time tracker: whether SQLite enforces foreign keys
    result          \* time tracker: the status the last tool call returned

\* The chat client's state and the time tracker's state.
chatVars == <<tools, tool_by_name, llm_with_tools, history, page, pc, error, first, tool_msgs, invoked, final>>

trackerVars == <<categories, sessions, notes, sqlite_sequence, foreign_keys, result>>

vars == <<chatVars, trackerVars>>

\* ------------------------------------------------------ time tracker server

\* Bounds of the time tracker specification: sessions and notes ever inserted.
MaxSessions == 1

MaxNotes == 1

\* The rows init_db inserts into an empty categories table, in order.
default_categories ==
    << [name |-> "Work", color |-> "#3B82F6"],
       [name |-> "Study", color |-> "#8B5CF6"],
       [name |-> "Exercise", color |-> "#10B981"],
       [name |-> "Reading", color |-> "#F59E0B"],
       [name |-> "Creative", color |-> "#EC4899"],
       [name |-> "Social", color |-> "#06B6D4"],
       [name |-> "Other", color |-> "#6B7280"] >>

\* The default of add_category's color.
DefaultColor == "#6B7280"

\* date.today().isoformat()
Today == "2026-11-03"

\* What a tool returns, kept to its status; the message of an error is
\* named in a comment where it is returned.
Success == [status |-> "success"]

Error == [status |-> "error"]

NoResult == [status |-> "none"]

\* An optional argument: absent (None) or given.
NoStr == [given |-> FALSE, value |-> ""]

SomeStr(v) == [given |-> TRUE, value |-> v]

NoInt == [given |-> FALSE, value |-> 0]

SomeInt(v) == [given |-> TRUE, value |-> v]

\* init_db on a new database file: the three empty tables and the default categories.
InitDb ==
    /\ categories = { [id |-> i, name |-> default_categories[i].name,
                         color |-> default_categories[i].color] :
                         i \in 1..Len(default_categories) }
    /\ sessions = {}
    /\ notes = {}
    /\ sqlite_sequence = [categories |-> Len(default_categories), sessions |-> 0, notes |-> 0]
    /\ result = NoResult

\* ----------------------------------------------------------- model endpoint

RECURSIVE CountCalls(_, _)
\* The number of tool calls requested so far in h[1..n].
CountCalls(h, n) ==
    IF n = 0 THEN 0 ELSE CountCalls(h, n - 1) + Len(h[n].tool_calls)

\* The endpoint issues a fresh call id for every request.
NextId(h) == CountCalls(h, Len(h)) + 1

NumTurns(h) == Len(SelectSeq(h, LAMBDA m : m.type = "human"))

\* tool_calls of a reply: requests rs with ids from n upwards.
WithIds(rs, n) ==
    [k \in 1..Len(rs) |-> [id |-> n + k - 1, name |-> rs[k].name, args |-> rs[k].args]]

\* Sequences of 1..n requests.
RequestSeqs(n) == UNION { [1..k -> ToolRequests] : k \in 1..n }

\* Replies of the model without bound tools; a stray tool call is possible.
FinalReplies ==
    { AIMessage(c, tc) : c \in ReplyTexts,
        tc \in { << >>, WithIds(<<[name |-> "add", args |-> DictArgs(12, 30)]>>, 0) } }

\* ----------------------------------------------------------------- actions

Init ==
    /\ tools = ServerTools
    /\ tool_by_name = ToolByName(ServerTools)
    /\ llm_with_tools = bind_tools(ServerTools)
    /\ history = << SystemMessage(SYSTEM_PROMPT) >>
    /\ page = << >>
    /\ pc = "Idle"
    /\ error = "none"
    /\ first = None
    /\ tool_msgs = << >>
    /\ invoked = << >>
    /\ final = None
    /\ InitDb
    /\ foreign_keys = FALSE

\* The session before the one-time init block has run.
InitStart ==
    /\ tools = << >>
    /\ tool_by_name = << >>
    /\ llm_with_tools = << >>
    /\ history = << >>
    /\ page = << >>
    /\ pc = "Start"
    /\ error = "none"
    /\ first = None
    /\ tool_msgs = << >>
    /\ invoked = << >>
    /\ final = None
    /\ InitDb
    /\ foreign_keys = FALSE

\* The one-time init block, with ts the descriptors get_tools() returns.
OneTimeInit(ts) ==
    /\ pc = "Start"
    /\ tools' = ts
    /\ tool_by_name' = ToolByName(ts)
    /\ llm_with_tools' = bind_tools(ts)
    /\ history' = << SystemMessage(SYSTEM_PROMPT) >>
    /\ pc' = "Idle"
    /\ UNCHANGED <<page, error, first, tool_msgs, invoked, final>>
    /\ UNCHANGED trackerVars

\* Variant: the view keeps what it drew before and draws the history after it.
Rerun_KeepsOldBubbles ==
    /\ pc \in {"Idle", "Failed"}
    /\ page' = page \o Render(history)
    /\ pc' = "Idle"
    /\ error' = "none"
    /\ first' = None
    /\ tool_msgs' = << >>
    /\ invoked' = << >>
    /\ final' = None
    /\ UNCHANGED <<tools, tool_by_name, llm_with_tools, history>>
    /\ UNCHANGED trackerVars

\* A script run without chat input: the history is rendered and the run ends.
Rerun ==
    /\ pc \in {"Idle", "Failed"}
    /\ page' = Render(history)
    /\ pc' = "Idle"
    /\ error' = "none"
    /\ first' = None
    /\ tool_msgs' = << >>
    /\ invoked' = << >>
    /\ final' = None
    /\ UNCHANGED <<tools, tool_by_name, llm_with_tools, history>>
    /\ UNCHANGED trackerVars

\* Variant: a chat input after a failed run starts from a cleared history.
Submit_ClearsAfterFailure(user_text) ==
    /\ pc \in {"Idle", "Failed"}
    /\ NumTurns(history) < MaxTurns
    /\ page' = Render(history) \o << Bubble("user", user_text) >>
    /\ history' = IF pc = "Failed"
                  THEN << SystemMessage(SYSTEM_PROMPT), HumanMessage(user_text) >>
                  ELSE Append(history, HumanMessage(user_text))
    /\ pc' = "Proposing"
    /\ error' = "none"
    /\ first' = None
    /\ tool_msgs' = << >>
    /\ invoked' = << >>
    /\ final' = None
    /\ UNCHANGED <<tools, tool_by_name, llm_with_tools>>
    /\ UNCHANGED trackerVars

\* Variant: a chat input is handled while the previous run is still going.
Submit_WhileRunning(user_text) ==
    /\ NumTurns(history) < MaxTurns
    /\ page' = Render(history) \o << Bubble("user", user_text) >>
    /\ history' = Append(history, HumanMessage(user_text))
    /\ pc' = "Proposing"
    /\ error' = "none"
    /\ first' = None
    /\ tool_msgs' = << >>
    /\ invoked' = << >>
    /\ final' = None
    /\ UNCHANGED <<tools, tool_by_name, llm_with_tools>>
    /\ UNCHANGED trackerVars

\* A chat input starts a script run: the history is rendered, the user's
\* bubble is drawn and the HumanMessage is appended.
Submit(user_text) ==
    /\ pc \in {"Idle", "Failed"}
    /\ NumTurns(history) < MaxTurns
    /\ page' = Render(history) \o << Bubble("user", user_text) >>
    /\ history' = Append(history, HumanMessage(user_text))
    /\ pc' = "Proposing"
    /\ error' = "none"
    /\ first' = None
    /\ tool_msgs' = << >>
    /\ invoked' = << >>
    /\ final' = None
    /\ UNCHANGED <<tools, tool_by_name, llm_with_tools>>
    /\ UNCHANGED trackerVars

\* The first model call raises.
ProposeFail ==
    /\ pc = "Proposing"
    /\ pc' = "Failed"
    /\ error' = "ModelUnavailable"
    /\ UNCHANGED <<tools, tool_by_name, llm_with_tools, history, page, first, tool_msgs, invoked, final>>
    /\ UNCHANGED trackerVars

\* Variant: the reply without tool_calls is stored and a second model call follows.
ProposeNoTools_ThenFinalize(content) ==
    /\ pc = "Proposing"
    /\ first' = AIMessage(content, << >>)
    /\ history' = Append(history, first')
    /\ pc' = "Finalizing"
    /\ UNCHANGED <<tools, tool_by_name, llm_with_tools, page, error, tool_msgs, invoked, final>>
    /\ UNCHANGED trackerVars

\* The first reply has no tool_calls: it is drawn and stored.
ProposeNoTools(content) ==
    /\ pc = "Proposing"
    /\ first' = AIMessage(content, << >>)
    /\ page' = Append(page, Bubble("assistant", first'.content))
    /\ history' = Append(history, first')
    /\ pc' = "Idle"
    /\ UNCHANGED <<tools, tool_by_name, llm_with_tools, error, tool_msgs, invoked, final>>
    /\ UNCHANGED trackerVars

\* Variant: the reply with tool_calls is not stored before the loop.
ProposeWithTools_NotStored(content, requests) ==
    /\ pc = "Proposing"
    /\ NextId(history) + Len(requests) - 1 <= MaxToolCalls
    /\ first' = AIMessage(content, WithIds(requests, NextId(history)))
    /\ tool_msgs' = << >>
    /\ pc' = "Executing"
    /\ UNCHANGED <<tools, tool_by_name, llm_with_tools, history, page, error, invoked, final>>
    /\ UNCHANGED trackerVars

\* Variant: the reply with tool_calls is drawn as well as stored.
ProposeWithTools_DrawsPlan(content, requests) ==
    /\ pc = "Proposing"
    /\ NextId(history) + Len(requests) - 1 <= MaxToolCalls
    /\ first' = AIMessage(content, WithIds(requests, NextId(history)))
    /\ page' = Append(page, Bubble("assistant", first'.content))
    /\ history' = Append(history, first')
    /\ tool_msgs' = << >>
    /\ pc' = "Executing"
    /\ UNCHANGED <<tools, tool_by_name, llm_with_tools, error, invoked, final>>
    /\ UNCHANGED trackerVars

\* The first reply has tool_calls: it is stored, not drawn, and the loop starts.
ProposeWithTools(content, requests) ==
    /\ pc = "Proposing"
    /\ NextId(history) + Len(requests) - 1 <= MaxToolCalls
    /\ first' = AIMessage(content, WithIds(requests, NextId(history)))
    /\ history' = Append(history, first')
    /\ tool_msgs' = << >>
    /\ pc' = "Executing"
    /\ UNCHANGED <<tools, tool_by_name, llm_with_tools, page, error, invoked, final>>
    /\ UNCHANGED trackerVars

\* One iteration of `for tc in tool_calls`.
ExecuteToolCall ==
    /\ pc = "Executing"
    /\ Len(tool_msgs) < Len(first.tool_calls)
    /\ LET tc == first.tool_calls[Len(tool_msgs) + 1]
           name == tc.name
           args == NormalizeArgs(tc.args)
       IN  IF name \notin DOMAIN tool_by_name
           THEN /\ pc' = "Failed"
                /\ error' = "KeyError"
                /\ UNCHANGED <<tool_msgs, invoked>>
           ELSE LET res == ainvoke(tool_by_name[name], args)
                IN  /\ invoked' = Append(invoked, [name |-> name, args |-> args])
                    /\ IF res.ok
                       THEN /\ tool_msgs' = Append(tool_msgs,
                                    ToolMessage(tc.id, json_dumps(res.value)))
                            /\ UNCHANGED <<pc, error>>
                       ELSE /\ pc' = "Failed"
                            /\ error' = "ToolException"
                            /\ UNCHANGED tool_msgs
    /\ UNCHANGED <<tools, tool_by_name, llm_with_tools, history, page, first, final>>
    /\ UNCHANGED trackerVars

\* Variant: the results are stored last first.
ExtendHistory_Reversed ==
    /\ pc = "Executing"
    /\ Len(tool_msgs) = Len(first.tool_calls)
    /\ history' = history \o [k \in 1..Len(tool_msgs) |-> tool_msgs[Len(tool_msgs) + 1 - k]]
    /\ pc' = "Finalizing"
    /\ UNCHANGED <<tools, tool_by_name, llm_with_tools, page, error, first, tool_msgs, invoked, final>>
    /\ UNCHANGED trackerVars

\* Variant: the second model call is made before the results are stored.
ExtendHistory_Skipped ==
    /\ pc = "Executing"
    /\ Len(tool_msgs) = Len(first.tool_calls)
    /\ pc' = "Finalizing"
    /\ UNCHANGED <<tools, tool_by_name, llm_with_tools, history, page, error, first, tool_msgs, invoked, final>>
    /\ UNCHANGED trackerVars

\* The loop is over: history.extend(tool_msgs).
ExtendHistory ==
    /\ pc = "Executing"
    /\ Len(tool_msgs) = Len(first.tool_calls)
    /\ history' = history \o tool_msgs
    /\ pc' = "Finalizing"
    /\ UNCHANGED <<tools, tool_by_name, llm_with_tools, page, error, first, tool_msgs, invoked, final>>
    /\ UNCHANGED trackerVars

\* Variant: the failed second call leaves an empty assistant message behind.
FinalizeFail_PartialMessage ==
    /\ pc = "Finalizing"
    /\ pc' = "Failed"
    /\ error' = "ModelUnavailable"
    /\ history' = Append(history, AIMessage("", << >>))
    /\ UNCHANGED <<tools, tool_by_name, llm_with_tools, page, first, tool_msgs, invoked, final>>
    /\ UNCHANGED trackerVars

\* The second model call raises.
FinalizeFail ==
    /\ pc = "Finalizing"
    /\ pc' = "Failed"
    /\ error' = "ModelUnavailable"
    /\ UNCHANGED <<tools, tool_by_name, llm_with_tools, history, page, first, tool_msgs, invoked, final>>
    /\ UNCHANGED trackerVars

\* Variant: the second reply itself is stored.
Finalize_StoresReply(reply) ==
    /\ pc = "Finalizing"
    /\ final' = reply
    /\ page' = Append(page, Bubble("assistant", final'.content))
    /\ history' = Append(history, final')
    /\ pc' = "Idle"
    /\ UNCHANGED <<tools, tool_by_name, llm_with_tools, error, first, tool_msgs, invoked>>
    /\ UNCHANGED trackerVars

\* Variant: the second reply is drawn and not stored.
Finalize_DrawsOnly(reply) ==
    /\ pc = "Finalizing"
    /\ final' = reply
    /\ page' = Append(page, Bubble("assistant", final'.content))
    /\ pc' = "Idle"
    /\ UNCHANGED <<tools, tool_by_name, llm_with_tools, history, error, first, tool_msgs, invoked>>
    /\ UNCHANGED trackerVars

\* Variant: the second reply is taken and the second model call is made again.
Finalize_CallsAgain(reply) ==
    /\ pc = "Finalizing"
    /\ final' = reply
    /\ pc' = "Finalizing"
    /\ UNCHANGED <<tools, tool_by_name, llm_with_tools, history, page, error, first, tool_msgs, invoked>>
    /\ UNCHANGED trackerVars

\* The second reply: its content is drawn and stored as a new AIMessage.
Finalize(reply) ==
    /\ pc = "Finalizing"
    /\ final' = reply
    /\ page' = Append(page, Bubble("assistant", final'.content))
    /\ history' = Append(history, AIMessage(final'.content, << >>))
    /\ pc' = "Idle"
    /\ UNCHANGED <<tools, tool_by_name, llm_with_tools, error, first, tool_msgs, invoked>>
    /\ UNCHANGED trackerVars

\* The steps of a turn after the chat input: a model call returns or raises,
\* a tool call is handled, the results are stored.
TurnStep ==
    \/ ProposeFail
    \/ \E content \in ReplyTexts : ProposeNoTools(content)
    \/ \E content \in PlanTexts,
          requests \in RequestSeqs(MaxToolCalls + 1 - NextId(history)) :
           ProposeWithTools(content, requests)
    \/ ExecuteToolCall
    \/ ExtendHistory
    \/ FinalizeFail
    \/ \E reply \in FinalReplies : Finalize(reply)

Next ==
    \/ Rerun
    \/ \E user_text \in UserTexts : Submit(user_text)
    \/ ProposeFail
    \/ \E content \in ReplyTexts : ProposeNoTools(content)
    \/ \E content \in PlanTexts,
          requests \in RequestSeqs(MaxToolCalls + 1 - NextId(history)) :
           ProposeWithTools(content, requests)
    \/ ExecuteToolCall
    \/ ExtendHistory
    \/ FinalizeFail
    \/ \E reply \in FinalReplies : Finalize(reply)

Spec == Init /\ [][Next]_vars

\* Every call of the script returns or raises: a turn that can take a step takes one.
SpecLive == Init /\ [][Next]_vars /\ WF_vars(TurnStep)

\* The one-time init over the lists of descriptors the servers can announce.
NextRegistry == \E ts \in ToolLists(MaxTools) : OneTimeInit(ts)

SpecRegistry == InitStart /\ [][NextRegistry]_vars

\* ----------------------------------------------------- time tracker actions
\* Rows carry the columns the tools write; created_at (a timestamp default)
\* is left out.

\* The arguments the tools are called with.
Activities == {"Math homework", "Team meeting"}

MinutesArgs == {0, 30}

CategoryArgs == {"Work", "Gardening"}

DateArgs == {"2026-11-01"}

NoteArgs == {"", "went well"}

ContentArgs == {"went well"}

SessionIdArgs == 1..(MaxSessions + 1)

OptStr(S) == {NoStr} \cup { SomeStr(v) : v \in S }

OptInt(S) == {NoInt} \cup { SomeInt(v) : v \in S }

\* SELECT id FROM categories WHERE name = ?  (the empty set is fetchone() None)
CategoryRows(name) == { c \in categories : c.name = name }

CategoryId(name) == (CHOOSE c \in CategoryRows(name) : TRUE).id

\* SELECT id FROM sessions WHERE id = ?
SessionRows(session_id) == { s \in sessions : s.id = session_id }

\* add_category: the UNIQUE name makes the INSERT raise IntegrityError.
add_category(name, color) ==
    /\ UNCHANGED <<chatVars, sessions, notes, foreign_keys>>
    /\ IF CategoryRows(name) # {}
       THEN /\ result' = Error   \* already exists
            /\ UNCHANGED <<categories, sqlite_sequence>>
       ELSE /\ categories' = categories \cup
                   { [id |-> sqlite_sequence.categories + 1, name |-> name, color |-> color] }
            /\ sqlite_sequence' = [sqlite_sequence EXCEPT !.categories = @ + 1]
            /\ result' = Success

\* add_session: the session row and, for a non-empty note, its note row, in
\* one transaction.  The database may raise inside the transaction (locked,
\* disk full): "with sqlite3.connect(...)" rolls it back and the tool returns
\* the error.
add_session(activity, minutes, category, session_date, note) ==
    /\ UNCHANGED <<chatVars, categories, foreign_keys>>
    /\ IF minutes <= 0
       THEN /\ result' = Error   \* Minutes must be positive
            /\ UNCHANGED <<sessions, notes, sqlite_sequence>>
       ELSE IF CategoryRows(category) = {}
       THEN /\ result' = Error   \* Category not found. Use add_category() first.
            /\ UNCHANGED <<sessions, notes, sqlite_sequence>>
       ELSE \/ /\ result' = Error   \* database error
               /\ UNCHANGED <<sessions, notes, sqlite_sequence>>
            \/ /\ sqlite_sequence.sessions < MaxSessions
               /\ note # "" => sqlite_sequence.notes < MaxNotes
               /\ LET session_id == sqlite_sequence.sessions + 1
                      date == IF session_date.given THEN session_date.value ELSE Today
                  IN /\ sessions' = sessions \cup
                            { [id |-> session_id, activity |-> activity, minutes |-> minutes,
                               category_id |-> CategoryId(category), session_date |-> date] }
                     /\ notes' = IF note # ""
                                 THEN notes \cup { [id |-> sqlite_sequence.notes + 1,
                                                    session_id |-> session_id, content |-> note] }
                                 ELSE notes
                     /\ sqlite_sequence' =
                            [sqlite_sequence EXCEPT !.sessions = session_id,
                                                    !.notes = IF note # "" THEN @ + 1 ELSE @]
                     /\ result' = Success

\* UPDATE sessions SET <the collected columns> WHERE id = ?
Updated(row, activity, minutes, category, session_date) ==
    [row EXCEPT !.activity = IF activity.given THEN activity.value ELSE @,
                !.minutes = IF minutes.given THEN minutes.value ELSE @,
                !.category_id = IF category.given THEN CategoryId(category.value) ELSE @,
                !.session_date = IF session_date.given THEN session_date.value ELSE @]

\* A variant that writes each column as soon as it is validated.
update_session_FieldByField(session_id, activity, minutes, category, session_date) ==
    /\ UNCHANGED <<chatVars, categories, notes, sqlite_sequence, foreign_keys>>
    /\ LET Written(a, m) ==
               { IF s.id = session_id THEN Updated(s, a, m, NoStr, NoStr) ELSE s : s \in sessions }
       IN IF SessionRows(session_id) = {}
          THEN /\ result' = Error   \* Session not found
               /\ UNCHANGED sessions
          ELSE IF minutes.given /\ minutes.value <= 0
          THEN /\ result' = Error   \* Minutes must be positive
               /\ sessions' = Written(activity, NoInt)
          ELSE IF category.given /\ CategoryRows(category.value) = {}
          THEN /\ result' = Error   \* Category not found
               /\ sessions' = Written(activity, minutes)
          ELSE IF ~(activity.given \/ minutes.given \/ category.given \/ session_date.given)
          THEN /\ result' = Error   \* No updates provided
               /\ UNCHANGED sessions
          ELSE \/ /\ result' = Error   \* database error
                  /\ sessions' = Written(activity, minutes)
               \/ /\ sessions' = { IF s.id = session_id
                                   THEN Updated(s, activity, minutes, category, session_date)
                                   ELSE s : s \in sessions }
                  /\ result' = Success

\* update_session: the checks only collect columns; one UPDATE writes them.
update_session(session_id, activity, minutes, category, session_date) ==
    /\ UNCHANGED <<chatVars, categories, notes, sqlite_sequence, foreign_keys>>
    /\ IF SessionRows(session_id) = {}
       THEN /\ result' = Error   \* Session not found
            /\ UNCHANGED sessions
       ELSE IF minutes.given /\ minutes.value <= 0
       THEN /\ result' = Error   \* Minutes must be positive
            /\ UNCHANGED sessions
       ELSE IF category.given /\ CategoryRows(category.value) = {}
       THEN /\ result' = Error   \* Category not found
            /\ UNCHANGED sessions
       ELSE IF ~(activity.given \/ minutes.given \/ category.given \/ session_date.given)
       THEN /\ result' = Error   \* No updates provided
            /\ UNCHANGED sessions
       ELSE \/ /\ result' = Error   \* database error
               /\ UNCHANGED sessions
            \/ /\ sessions' = { IF s.id = session_id
                                THEN Updated(s, activity, minutes, category, session_date)
                                ELSE s : s \in sessions }
               /\ result' = Success

\* delete_session: DELETE FROM sessions; the notes of the session go with it
\* only where SQLite enforces the foreign key's ON DELETE CASCADE.
delete_session(session_id) ==
    /\ UNCHANGED <<chatVars, categories, sqlite_sequence, foreign_keys>>
    /\ IF SessionRows(session_id) = {}
       THEN /\ result' = Error   \* Session not found
            /\ UNCHANGED <<sessions, notes>>
       ELSE /\ sessions' = sessions \ SessionRows(session_id)
            /\ notes' = IF foreign_keys
                        THEN { n \in notes : n.session_id # session_id }
                        ELSE notes
            /\ result' = Success

\* add_note: a note row for an existing session.
add_note(session_id, content) ==
    /\ UNCHANGED <<chatVars, categories, sessions, foreign_keys>>
    /\ IF SessionRows(session_id) = {}
       THEN /\ result' = Error   \* Session not found
            /\ UNCHANGED <<notes, sqlite_sequence>>
       ELSE \/ /\ result' = Error   \* database error
               /\ UNCHANGED <<notes, sqlite_sequence>>
            \/ /\ sqlite_sequence.notes < MaxNotes
               /\ notes' = notes \cup { [id |-> sqlite_sequence.notes + 1,
                                         session_id |-> session_id, content |-> content] }
               /\ sqlite_sequence' = [sqlite_sequence EXCEPT !.notes = @ + 1]
               /\ result' = Success

\* The server after import: init_db has run on a new database.  Python's
\* sqlite3 leaves foreign keys as the SQLite build sets them, off unless the
\* library was compiled with SQLITE_DEFAULT_FOREIGN_KEYS=1; no tool issues
\* PRAGMA foreign_keys.
InitTracker ==
    /\ tools = << >>
    /\ tool_by_name = << >>
    /\ llm_with_tools = << >>
    /\ history = << >>
    /\ page = << >>
    /\ pc = "Start"
    /\ error = "none"
    /\ first = None
    /\ tool_msgs = << >>
    /\ invoked = << >>
    /\ final = None
    /\ InitDb
    /\ foreign_keys \in BOOLEAN

NextTracker ==
    \/ \E name \in CategoryArgs : add_category(name, DefaultColor)
    \/ \E activity \in Activities, minutes \in MinutesArgs, category \in CategoryArgs,
          session_date \in OptStr(DateArgs), note \in NoteArgs :
          add_session(activity, minutes, category, session_date, note)
    \/ \E session_id \in SessionIdArgs, activity \in OptStr(Activities),
          minutes \in OptInt(MinutesArgs), category \in OptStr(CategoryArgs),
          session_date \in OptStr(DateArgs) :
          update_session(session_id, activity, minutes, category, session_date)
    \/ \E session_id \in SessionIdArgs : delete_session(session_id)
    \/ \E session_id \in SessionIdArgs, content \in ContentArgs :
          add_note(session_id, content)

SpecTracker == InitTracker /\ [][NextTracker]_vars


\* ------------------------------------------------------------ vocabulary of the properties

TurnOver == pc \in {"Idle", "Failed"}

\* The position of the last entry before p that is not a tool result.
LastNonTool(h, p) ==
    CHOOSE i \in 1..(p - 1) :
        h[i].type # "tool" /\ \A j \in (i + 1)..(p - 1) : h[j].type = "tool"

\* The position of the first entry after i that is not a tool result (Len + 1 if none).
NextNonTool(h, i) ==
    IF \E j \in (i + 1)..Len(h) : h[j].type # "tool"
    THEN CHOOSE j \in (i + 1)..Len(h) :
             h[j].type # "tool" /\ \A l \in (i + 1)..(j - 1) : h[l].type = "tool"
    ELSE Len(h) + 1

\* The tool results that answer request id in the entries right after position i.
ResultsFor(h, i, id) ==
    { p \in (i + 1)..(NextNonTool(h, i) - 1) : h[p].tool_call_id = id }

\* The request the loop is about to handle.
AtRequest == pc = "Executing" /\ Len(tool_msgs) < Len(first.tool_calls)

CurrentCall == first.tool_calls[Len(tool_msgs) + 1]

\* The loop has handled the current request and recorded a result for it.
RecordedAndContinues ==
    /\ pc' = "Executing"
    /\ Len(tool_msgs') = Len(tool_msgs) + 1
    /\ tool_msgs'[Len(tool_msgs')].type = "tool"
    /\ tool_msgs'[Len(tool_msgs')].tool_call_id = CurrentCall.id

\* ------------------------------------------------------------------ claims

\* C1: once a turn is over or a later message follows, every request of an
\* assistant message with pending calls has exactly one tool result with its
\* id among the entries appended right after that message.
C1_EveryCallMatched ==
    \A i \in 1..Len(history) :
        (HasCalls(history[i])
            /\ (TurnOver \/ \E j \in (i + 1)..Len(history) : history[j].type \in {"ai", "human"}))
        => \A k \in 1..Len(history[i].tool_calls) :
               Cardinality(ResultsFor(history, i, history[i].tool_calls[k].id)) = 1

\* C2: a request for a tool that is not in the registry does not end the
\* turn: a result is recorded for the call and the loop goes on.
C2_ToolNotFoundRecovered ==
    [][(AtRequest /\ CurrentCall.name \notin DOMAIN tool_by_name)
          => RecordedAndContinues]_vars

\* C3: a tool invocation that fails does not end the turn: a result is
\* recorded for the call and the loop goes on with the other calls.
C3_InvocationFailureCaptured ==
    [][(AtRequest /\ CurrentCall.name \in DOMAIN tool_by_name
          /\ ~ainvoke(tool_by_name[CurrentCall.name], NormalizeArgs(CurrentCall.args)).ok)
          => RecordedAndContinues]_vars

\* C4: a model call that fails while proposing or finalizing ends the turn
\* and leaves the transcript exactly as it was before the call.
C4_ModelFailureKeepsTranscript ==
    [][(pc \in {"Proposing", "Finalizing"} /\ pc' = "Failed")
          => (error' = "ModelUnavailable" /\ history' = history)]_vars

C4_Witness ==
    /\ pc = "Failed"
    /\ error = "ModelUnavailable"
    /\ NumTurns(history) = 2
    /\ history[Len(history)].type = "tool"

\* C5: no bubble is drawn for an assistant message with pending calls, for a
\* tool result or for the system prompt.
C5_RenderHidesPlumbing ==
    \A k \in 1..Len(Rendered(history)) :
        LET m == history[Rendered(history)[k]]
        IN  m.type \notin {"tool", "system"} /\ ~HasCalls(m)

C5_Witness ==
    /\ \E i \in 1..Len(history) : HasCalls(history[i]) /\ history[i].content # ""
    /\ \E i \in 1..Len(history) : history[i].type = "tool"
    /\ Len(Rendered(history)) >= 2

\* C6: the bubbles drawn are the user messages and the assistant messages
\* without pending calls, each once, in transcript order, with their text.
C6_RenderShowsEveryAnswer ==
    LET idx == Rendered(history)
        view == Render(history)
    IN  /\ \A k, l \in 1..Len(idx) : k < l => idx[k] < idx[l]
        /\ { idx[k] : k \in 1..Len(idx) }
             = { i \in 1..Len(history) : history[i].type = "human" \/ IsAnswer(history[i]) }
        /\ Len(view) = Len(idx)
        /\ \A k \in 1..Len(idx) :
               /\ view[k].text = history[idx[k]].content
               /\ view[k].role = IF history[idx[k]].type = "human" THEN "user" ELSE "assistant"

C6_Witness ==
    /\ Len(Rendered(history)) = 4
    /\ \E i \in 1..Len(history) : IsAnswer(history[i]) /\ history[i].content = ""
    /\ \E i \in 1..Len(history) : HasCalls(history[i])

\* C7: the tool results of an executing step follow the assistant message
\* that requested them in request order: the i-th result carries the id of
\* the i-th request, and all of them are there when finalizing starts.
C7_ResultsInRequestOrder ==
    /\ \A p \in 2..Len(history) :
           history[p].type = "tool" =>
               LET i == LastNonTool(history, p)
               IN  /\ HasCalls(history[i])
                   /\ p - i <= Len(history[i].tool_calls)
                   /\ history[p].tool_call_id = history[i].tool_calls[p - i].id
    /\ pc = "Finalizing" =>
           LET k == Len(first.tool_calls)
           IN  /\ Len(history) > k
               /\ history[Len(history) - k] = first
               /\ \A j \in 1..k : history[Len(history) - k + j].type = "tool"

C7_Witness ==
    /\ pc = "Finalizing"
    /\ Len(first.tool_calls) >= 2
    /\ history[Len(history)].type = "tool"

\* C8: every tool result carries the id of a request of an assistant message
\* that stands earlier in the transcript.
C8_ResultHasEarlierRequest ==
    \A p \in 1..Len(history) :
        history[p].type = "tool" =>
            \E i \in 1..(p - 1) :
                /\ history[i].type = "ai"
                /\ \E k \in 1..Len(history[i].tool_calls) :
                       history[i].tool_calls[k].id = history[p].tool_call_id

C8_Witness ==
    \E p \in 1..Len(history) : history[p].type = "tool" /\ history[p].tool_call_id >= 2

\* C9: the assistant message stored after the tool results has no pending
\* calls, also when the second reply of the model carries tool calls.
C9_FinalAnswerHasNoCalls ==
    /\ \A p \in 2..Len(history) :
           (history[p].type = "ai" /\ history[p - 1].type = "tool")
               => history[p].tool_calls = << >>
    /\ (pc = "Idle" /\ final # None)
           => history[Len(history)] = AIMessage(final.content, << >>)

C9_Witness ==
    /\ pc = "Idle"
    /\ final # None
    /\ final.tool_calls # << >>
    /\ history[Len(history)].type = "ai"

\* C10: when the first reply has no tool calls, the turn is over with that
\* reply stored right after the user's message: no tool was invoked and no
\* second model call was made.
C10_NoToolsGoesIdle ==
    (first # None /\ first.tool_calls = << >>)
        => /\ pc = "Idle"
           /\ error = "none"
           /\ history[Len(history)] = first
           /\ history[Len(history) - 1].type = "human"
           /\ invoked = << >>
           /\ tool_msgs = << >>
           /\ final = None

C10_Witness ==
    /\ pc = "Idle"
    /\ first # None
    /\ first.tool_calls = << >>
    /\ first.content = "42"
    /\ NumTurns(history) = 2

\* s is an initial part of t.
IsPrefix(s, t) == Len(s) <= Len(t) /\ \A i \in 1..Len(s) : t[i] = s[i]

\* C11: every step leaves the transcript it found as an unchanged initial
\* part of the transcript it leaves.
C11_AppendOnly == [][IsPrefix(history, history')]_vars

C11_Witness ==
    /\ NumTurns(history) = 2
    /\ pc = "Idle"
    /\ final # None
    /\ \E i \in 1..Len(history) :
           HasCalls(history[i]) /\ i < Len(history) /\ history[i + 1].type = "human"

\* The loop is at a request with string arguments for a tool of the registry.
AtStringRequest ==
    AtRequest /\ CurrentCall.args.kind = "str" /\ CurrentCall.name \in DOMAIN tool_by_name

\* What a string of arguments is to become: its parsed mapping, or itself.
ParsedOrRaw(a) == IF json_loads(a.str).ok THEN json_loads(a.str).value ELSE a

LastWithName(ts, n) ==
    CHOOSE j \in 1..Len(ts) :
        ts[j].name = n /\ \A l \in (j + 1)..Len(ts) : ts[l].name # n

\* C14: after the one-time init the registry holds exactly the announced
\* names, and every name resolves to the last descriptor announced with it
\* (its only descriptor, when no other shares the name).
C14_LastRegisteredWins ==
    pc = "Idle" =>
        /\ DOMAIN tool_by_name = { tools[i].name : i \in 1..Len(tools) }
        /\ \A i \in 1..Len(tools) :
               tool_by_name[tools[i].name] = tools[LastWithName(tools, tools[i].name)]

C14_Witness ==
    /\ pc = "Idle"
    /\ Len(tools) = 3
    /\ tools[1].name = tools[3].name
    /\ tools[1].server # tools[3].server
    /\ tools[2].name # tools[1].name
    /\ tool_by_name[tools[1].name] = tools[3]

\* C15: the descriptors shown to the model carry pairwise different names,
\* and each of them is the descriptor its name resolves to in the registry.
C15_PresentedNamesUnique ==
    pc = "Idle" =>
        /\ \A i, j \in 1..Len(llm_with_tools) :
               i # j => llm_with_tools[i].name # llm_with_tools[j].name
        /\ \A i \in 1..Len(llm_with_tools) :
               tool_by_name[llm_with_tools[i].name] = llm_with_tools[i].tool

\* The script run of a turn has ended without raising.
TurnDone == pc = "Idle" /\ first # None

\* The position of the user message that started the latest turn.
LastHuman(h) ==
    CHOOSE i \in 1..Len(h) :
        h[i].type = "human" /\ \A j \in (i + 1)..Len(h) : h[j].type # "human"

\* The transcript as it was before the latest turn.
BeforeTurn(h) == SubSeq(h, 1, LastHuman(h) - 1)

\* C16: after a turn that ended without raising, the rendered view is the
\* view of the transcript before the turn followed by two bubbles: the
\* user's message and one assistant answer.
C16_TurnAddsTwoBubbles ==
    TurnDone =>
        LET view == Render(history)
            old == Render(BeforeTurn(history))
        IN  /\ Len(view) = Len(old) + 2
            /\ SubSeq(view, 1, Len(old)) = old
            /\ view[Len(old) + 1] = Bubble("user", history[LastHuman(history)].content)
            /\ view[Len(old) + 2] = Bubble("assistant", history[Len(history)].content)

C16_Witness ==
    /\ TurnDone
    /\ final # None
    /\ Len(tool_msgs) = 2
    /\ final.content = "42"
    /\ NumTurns(history) = 2
    /\ Len(Render(history)) = 4

\* The page is what a script run without chat input has drawn.
JustRendered == pc = "Idle" /\ first = None

C18_TurnEnds == (pc \in {"Proposing", "Executing", "Finalizing"}) ~> TurnOver

C18_Witness ==
    /\ pc = "Idle"
    /\ final # None
    /\ Len(first.tool_calls) = 2
    /\ Len(tool_msgs) = 2
    /\ Len(invoked) = 2

\* The entries the latest turn has appended, its user message first.
TurnEntries(h) == SubSeq(h, LastHuman(h), Len(h))

\* e is a user message, then m, then one tool result per request of m in
\* request order.
IsToolRound(e, m) ==
    /\ Len(e) = 2 + Len(m.tool_calls)
    /\ e[1].type = "human"
    /\ e[2] = m
    /\ HasCalls(m)
    /\ \A k \in 1..Len(m.tool_calls) :
           e[2 + k].type = "tool" /\ e[2 + k].tool_call_id = m.tool_calls[k].id

\* C19: when the second model call is made, the transcript it is given ends
\* with the turn's user message, the assistant message with its calls and
\* all of their tool results; when the turn is done, the final assistant
\* message follows them and nothing else.
C19_FinalizeAfterAllResults ==
    /\ pc = "Finalizing" => IsToolRound(TurnEntries(history), first)
    /\ (pc = "Idle" /\ final # None) =>
           LET e == TurnEntries(history)
           IN  /\ IsToolRound(SubSeq(e, 1, Len(e) - 1), first)
               /\ IsAnswer(e[Len(e)])
               /\ e[Len(e)].content = final.content

C19_Witness ==
    /\ pc = "Idle"
    /\ final # None
    /\ Len(first.tool_calls) = 2
    /\ NumTurns(history) = 2
    /\ Len(TurnEntries(history)) = 5

\* C20: after a turn that ended without raising, the bubbles the run drew
\* after the history (the user's text and the assistant's answer) are the
\* bubbles the history loop draws for the entries the turn appended, so a
\* render of the transcript shows the page the run has shown.
C20_InlineMatchesRender ==
    TurnDone =>
        /\ page = Render(BeforeTurn(history)) \o Render(TurnEntries(history))
        /\ page = Render(history)

C20_Witness ==
    /\ TurnDone
    /\ final # None
    /\ final.content = ""
    /\ NumTurns(history) = 2
    /\ Len(page) = 4
    /\ page[2].text = "42"

\* ------------------------------------------------------ time tracker claims

\* C21: after any sequence of add_session, add_note and delete_session calls,
\* every stored note refers to a session that still exists.
C21_EveryNoteHasSession ==
    \A n \in notes : \E s \in sessions : s.id = n.session_id

\* The step wrote every requested column of session session_id, kept its
\* other columns and left the other rows alone.
AllApplied(session_id, activity, minutes, category, session_date) ==
    /\ { s \in sessions' : s.id # session_id } = { s \in sessions : s.id # session_id }
    /\ \E r \in sessions' : r.id = session_id
    /\ \A s \in sessions, r \in sessions' :
          (s.id = session_id /\ r.id = session_id) =>
             /\ r.activity = IF activity.given THEN activity.value ELSE s.activity
             /\ r.minutes = IF minutes.given THEN minutes.value ELSE s.minutes
             /\ IF category.given
                THEN \E c \in categories : c.name = category.value /\ c.id = r.category_id
                ELSE r.category_id = s.category_id
             /\ r.session_date = IF session_date.given THEN session_date.value
                                 ELSE s.session_date

\* C22: a call that returns status "error" leaves the stored categories,
\* sessions and notes unchanged, and an update_session call that changes the
\* sessions at all has applied every field change it was asked for.
C22_ErrorLeavesStoreUnchanged ==
    [][ /\ result'.status = "error" => UNCHANGED <<categories, sessions, notes>>
        /\ sessions' # sessions =>
              \A session_id \in SessionIdArgs, activity \in OptStr(Activities),
                 minutes \in OptInt(MinutesArgs), category \in OptStr(CategoryArgs),
                 session_date \in OptStr(DateArgs) :
                 update_session(session_id, activity, minutes, category, session_date)
                    => AllApplied(session_id, activity, minutes, category, session_date)
      ]_vars

\* A call returned status "error" while a session and a note were stored.
C22_Witness ==
    /\ result.status = "error"
    /\ sessions # {}
    /\ notes # {}

====
